---- MODULE Spec2Model ----
(***************************************************************************)
(* Model of the wallet scan function netlify/functions/scan-wallet.ts:     *)
(* the metadata resolver (fetchEnhancedTokenMetadata, getTokenPriceData),  *)
(* the risk classifier (assessEnhancedTokenRisk) and the scan handler      *)
(* (handler, lines 362-532) with its aggregation step.                     *)
(*                                                                         *)
(* Representation.                                                         *)
(*  - A JavaScript string is a sequence of one-character strings.          *)
(*  - A nullable value is Null (<<>>) or Some(v) (<<v>>); null and         *)
(*    undefined are both Null (the code only tests them with !x, x || y,   *)
(*    x && y and, for volume24h, !== null on a field that is never         *)
(*    undefined).                                                          *)
(*  - uiAmount is a fixed-point number with one decimal digit (UiScale     *)
(*    units per whole token).  A price is counted in price units; there    *)
(*    are PriceUnitsPerUsd of them in a dollar.  A USD value is a product  *)
(*    uiAmount * price, counted in value units (ValueUnitsPerUsd per       *)
(*    dollar).  liquidity, volume24h and marketCap are whole dollars.      *)
(*    Arithmetic is exact; the code's IEEE-754 rounding is not modelled.   *)
(***************************************************************************)
EXTENDS Integers, Sequences, FiniteSets, TLC

VARIABLES
    event,          \* handler: the request (httpMethod, body)
    pc,             \* handler: position in the handler
    statusCode,     \* handler: status of the response (0: none yet)
    tokenAccounts,  \* handler: tokenAccounts.value, the RPC's answer
    idx,            \* handler: number of accounts the for loop has consumed
    tokens,         \* handler: const tokens = []
    nfts,           \* handler: const nfts = []
    delegateCount,  \* handler: let delegateCount = 0
    scanResult,     \* handler: the body of the 200 response
    rpc,            \* classifier: position in assessEnhancedTokenRisk
    rmetadata,      \* classifier: argument metadata
    raccount,       \* classifier: argument tokenAccount
    rkw,            \* classifier: index of the keyword loop
    riskLevel,      \* classifier: let riskLevel
    issues,         \* classifier: const issues
    fpc,            \* resolver: position in fetchEnhancedTokenMetadata
    fmint,          \* resolver: argument mint
    fresponses,     \* resolver: what each provider answers for the mint
    faccount,       \* resolver: the token account the mint is held in
    fmetadata,      \* resolver: const metadata
    fqueried,       \* resolver: the identity sources fetched so far
    fverdict,       \* resolver: the verdict of the holding, once classified
    component,      \* scanner UI: the scanner component that is mounted
    upc,            \* scanner UI: position in scanWallet / handleScan
    connected,      \* scanner UI: useWallet().connected (publicKey is set)
    walletAddress,  \* scanner UI: const [walletAddress, setWalletAddress]
    isScanning,     \* scanner UI: const [isScanning, setIsScanning]
    scanProgress,   \* scanner UI: const [scanProgress, setScanProgress]
    error,          \* scanner UI: const [error, setError]
    alert,          \* scanner UI: const [alert, setAlert]
    shown,          \* scanner UI: const [scanResult, setScanResult]
    ustep,          \* scanner UI: steps of progressSteps already shown
    intervals,      \* scanner UI: progressInterval timers not yet cleared
    isProcessing,   \* WalletActions: const [isProcessing, setIsProcessing]
    apc,            \* WalletActions: position in the revoke / close handler
    publicKey,      \* WalletActions: useWallet().publicKey is set
    tokenProp,      \* WalletActions: the token prop
    notice          \* WalletActions: last onSuccess / onError call

vars ==
    <<event, pc, statusCode, tokenAccounts, idx, tokens, nfts, delegateCount,
      scanResult, rpc, rmetadata, raccount, rkw, riskLevel, issues,
      fpc, fmint, fresponses, faccount, fmetadata, fqueried, fverdict,
      component, upc, connected, walletAddress, isScanning, scanProgress,
      error, alert, shown, ustep, intervals,
      isProcessing, apc, publicKey, tokenProp, notice>>

handlerVars ==
    <<event, pc, statusCode, tokenAccounts, idx, tokens, nfts, delegateCount, scanResult>>

riskVars ==
    <<rpc, rmetadata, raccount, rkw, riskLevel, issues>>

fetchVars ==
    <<fpc, fmint, fresponses, faccount, fmetadata, fqueried, fverdict>>

scannerVars ==
    <<component, upc, connected, walletAddress, isScanning, scanProgress,
      error, alert, shown, ustep, intervals>>

actionVars ==
    <<isProcessing, apc, publicKey, tokenProp, notice>>

uiVars ==
    <<scannerVars, actionVars>>

----------------------------------------------------------------------------
(* Bounds of the model *)

\* longest holding list the RPC returns
MaxAccounts ==
    2

\* largest classified asset set handed to the aggregation on its own
MaxAssets ==
    4

\* price units per low-price threshold (0.0001 USD): the resolution of a price
PriceResolution ==
    2

----------------------------------------------------------------------------
(* JavaScript values *)

Null ==
    <<>>

Some(v) ==
    <<v>>

\* !!x for a nullable number: null, undefined and 0 are falsy
TruthyNum(x) ==
    x # Null /\ x[1] # 0

\* !!x for a nullable string: null, undefined and '' are falsy
TruthyStr(x) ==
    x # Null /\ x[1] # <<>>

\* (x || '') for a nullable string
OrEmpty(x) ==
    IF TruthyStr(x) THEN x[1] ELSE <<>>

\* (x || 0) for a nullable number
OrZero(x) ==
    IF TruthyNum(x) THEN x[1] ELSE 0

Min(a, b) ==
    IF a < b THEN a ELSE b

Max(a, b) ==
    IF a > b THEN a ELSE b

Range(s) ==
    {s[i] : i \in DOMAIN s}

UpperCase ==
    <<"A", "B", "C", "D", "E", "F", "G", "H", "I", "J", "K", "L", "M",
      "N", "O", "P", "Q", "R", "S", "T", "U", "V", "W", "X", "Y", "Z">>

LowerCase ==
    <<"a", "b", "c", "d", "e", "f", "g", "h", "i", "j", "k", "l", "m",
      "n", "o", "p", "q", "r", "s", "t", "u", "v", "w", "x", "y", "z">>

\* the lower-case letter of each upper-case letter
LowerOf ==
    [c \in Range(UpperCase) |->
        LowerCase[CHOOSE j \in DOMAIN UpperCase : UpperCase[j] = c]]

\* String.prototype.toLowerCase on the ASCII letters
toLowerCase(s) ==
    [i \in DOMAIN s |-> IF s[i] \in DOMAIN LowerOf THEN LowerOf[s[i]] ELSE s[i]]

\* String.prototype.includes
includes(s, sub) ==
    \E i \in 0..(Len(s) - Len(sub)) : SubSeq(s, i + 1, i + Len(sub)) = sub

\* s.slice(0, n)
sliceHead(s, n) ==
    SubSeq(s, 1, Min(n, Len(s)))

\* s.slice(-n)
sliceTail(s, n) ==
    SubSeq(s, Max(1, Len(s) - n + 1), Len(s))

\* Math.round(num / den) for den > 0: the nearest integer, a half rounds up
MathRound(num, den) ==
    (2 * num + den) \div (2 * den)

----------------------------------------------------------------------------
(* Units *)

\* 0.0001 is one part in LowPriceInverse of a dollar
LowPriceInverse ==
    10000

PriceUnitsPerUsd ==
    PriceResolution * LowPriceInverse

\* uiAmount units per whole token
UiScale ==
    10

ValueUnitsPerUsd ==
    PriceUnitsPerUsd * UiScale

----------------------------------------------------------------------------
(* Static reference tables *)

ScamMint1 ==
    <<"E", "X", "A", "M", "P", "L", "E", "_", "S", "C", "A", "M", "_",
      "M", "I", "N", "T", "_", "1">>

ScamMint2 ==
    <<"E", "X", "A", "M", "P", "L", "E", "_", "S", "C", "A", "M", "_",
      "M", "I", "N", "T", "_", "2">>

KNOWN_SCAM_TOKENS ==
    {ScamMint1, ScamMint2}

SUSPICIOUS_KEYWORDS ==
    << <<"b", "o", "n", "u", "s">>,
       <<"a", "i", "r", "d", "r", "o", "p">>,
       <<"g", "i", "v", "e", "a", "w", "a", "y">>,
       <<"c", "l", "a", "i", "m">>,
       <<"r", "e", "w", "a", "r", "d">>,
       <<"f", "r", "e", "e">>,
       <<"s", "c", "a", "m">>,
       <<"p", "h", "i", "s", "h">>,
       <<"h", "a", "c", "k">>,
       <<"t", "e", "s", "t">>,
       <<"f", "a", "k", "e">>,
       <<"z", "e", "r", "o", "l", "e", "n", "d", "s">>,
       <<"o", "r", "i", "g", "i", "n", "e", "t", "h", "e", "r">> >>

----------------------------------------------------------------------------
(* Risk classifier: assessEnhancedTokenRisk, one operator per rule.  A     *)
(* verdict v is [riskLevel, issues]; an issue is a sequence of strings     *)
(* (the keyword issue is its prefix followed by the keyword's characters). *)

LowPriceThreshold ==
    PriceUnitsPerUsd \div LowPriceInverse

LowLiquidityThreshold ==
    1000

LowVolumeThreshold ==
    100

IssueKnownScam ==
    <<"Known scam token">>

IssueKeyword(keyword) ==
    <<"Suspicious keyword: ">> \o keyword

IssueNoMetadata ==
    <<"No metadata available">>

IssueLowPrice ==
    <<"Extremely low token price">>

IssueLowLiquidity ==
    <<"Very low liquidity">>

IssueLowVolume ==
    <<"Very low trading volume">>

IssueUnverified ==
    <<"Unverified token with market activity">>

IssueDelegate ==
    <<"Has active delegate approval">>

IssueRugPull ==
    <<"Liquidity significantly higher than market cap">>

InitialVerdict ==
    [riskLevel |-> "safe", issues |-> <<>>]

\* riskLevel = riskLevel === 'safe' ? 'suspicious' : riskLevel
SuspiciousIfSafe(level) ==
    IF level = "safe" THEN "suspicious" ELSE level

KnownScamCheck(v, metadata) ==
    IF metadata.mint \in KNOWN_SCAM_TOKENS
    THEN [riskLevel |-> "malicious", issues |-> Append(v.issues, IssueKnownScam)]
    ELSE v

\* one iteration of the for loop over SUSPICIOUS_KEYWORDS
KeywordCheck(v, metadata, keyword) ==
    LET lowerName == toLowerCase(OrEmpty(metadata.name))
        lowerSymbol == toLowerCase(OrEmpty(metadata.symbol))
    IN  IF includes(lowerName, keyword) \/ includes(lowerSymbol, keyword)
        THEN [riskLevel |-> IF v.riskLevel = "malicious" THEN "malicious" ELSE "suspicious",
              issues |-> Append(v.issues, IssueKeyword(keyword))]
        ELSE v

RECURSIVE KeywordLoop(_, _, _)
\* the iterations k..Len(SUSPICIOUS_KEYWORDS) of the keyword loop
KeywordLoop(v, metadata, k) ==
    IF k > Len(SUSPICIOUS_KEYWORDS)
    THEN v
    ELSE KeywordLoop(KeywordCheck(v, metadata, SUSPICIOUS_KEYWORDS[k]), metadata, k + 1)

MissingIdentityCheck(v, metadata) ==
    IF ~TruthyStr(metadata.name) /\ ~TruthyStr(metadata.symbol)
    THEN [riskLevel |-> "suspicious", issues |-> Append(v.issues, IssueNoMetadata)]
    ELSE v

LowPriceCheck(v, metadata) ==
    IF TruthyNum(metadata.price) /\ metadata.price[1] < LowPriceThreshold
    THEN [riskLevel |-> SuspiciousIfSafe(v.riskLevel),
          issues |-> Append(v.issues, IssueLowPrice)]
    ELSE v

LowLiquidityCheck(v, metadata) ==
    IF TruthyNum(metadata.liquidity) /\ metadata.liquidity[1] < LowLiquidityThreshold
    THEN [riskLevel |-> SuspiciousIfSafe(v.riskLevel),
          issues |-> Append(v.issues, IssueLowLiquidity)]
    ELSE v

LowVolumeCheck(v, metadata) ==
    IF metadata.volume24h # Null /\ metadata.volume24h[1] < LowVolumeThreshold
    THEN [riskLevel |-> SuspiciousIfSafe(v.riskLevel),
          issues |-> Append(v.issues, IssueLowVolume)]
    ELSE v

UnverifiedCheck(v, metadata) ==
    IF ~metadata.verified /\ TruthyNum(metadata.price) /\ metadata.price[1] > 0
    THEN [riskLevel |-> SuspiciousIfSafe(v.riskLevel),
          issues |-> Append(v.issues, IssueUnverified)]
    ELSE v

\* DelegateCheck that raises the level and pushes no issue
DelegateCheckSilent(v, tokenAccount) ==
    IF TruthyStr(tokenAccount.delegate)
    THEN [riskLevel |-> SuspiciousIfSafe(v.riskLevel), issues |-> v.issues]
    ELSE v

DelegateCheck(v, tokenAccount) ==
    IF TruthyStr(tokenAccount.delegate)
    THEN [riskLevel |-> SuspiciousIfSafe(v.riskLevel),
          issues |-> Append(v.issues, IssueDelegate)]
    ELSE v

RugPullCheck(v, metadata) ==
    IF /\ TruthyNum(metadata.liquidity)
       /\ TruthyNum(metadata.marketCap)
       /\ metadata.liquidity[1] > metadata.marketCap[1] * 2
    THEN [riskLevel |-> "suspicious", issues |-> Append(v.issues, IssueRugPull)]
    ELSE v

assessEnhancedTokenRisk(metadata, tokenAccount) ==
    LET v1 == KnownScamCheck(InitialVerdict, metadata)
        v2 == KeywordLoop(v1, metadata, 1)
        v3 == MissingIdentityCheck(v2, metadata)
        v4 == LowPriceCheck(v3, metadata)
        v5 == LowLiquidityCheck(v4, metadata)
        v6 == LowVolumeCheck(v5, metadata)
        v7 == UnverifiedCheck(v6, metadata)
        v8 == DelegateCheck(v7, tokenAccount)
    IN  RugPullCheck(v8, metadata)

\* a truthy value that is not a string (the number 12345 where a provider's
\* JSON should hold a string): it has no method toLowerCase
NotAString ==
    <<"12345">>

\* lines 295-296: (metadata.name || '').toLowerCase() and the same for the
\* symbol throw a TypeError on a truthy value that is not a string
assessThrows(metadata) ==
    \/ metadata.name = Some(NotAString)
    \/ metadata.symbol = Some(NotAString)

----------------------------------------------------------------------------
(* Metadata resolver.  A provider's answer is a record with a field kind:   *)
(* "fail" is a rejected fetch or a non-OK status, "throw" an OK answer      *)
(* whose body does not parse (json() rejects), "none" a well-formed answer  *)
(* without an entry for the mint, "found" an answer with an entry.          *)
(* The pass-through fields twitter, coingeckoId, priceChange24h and         *)
(* dexScreenerUrl are left out: nothing reads them.                         *)

Failed ==
    [kind |-> "fail"]

Unparsable ==
    [kind |-> "throw"]

NoEntry ==
    [kind |-> "none"]

Found(entry) ==
    [kind |-> "found", entry |-> entry]

\* fetchMetaplexMetadataUmi: null, or the on-chain name and symbol with the
\* fields of the off-chain JSON when the uri is set and its fetch succeeds.
\* (The on-chain strings are taken after the NUL-stripping and trim.)
fetchMetaplexMetadataUmi(response) ==
    IF response.kind # "found"
    THEN Null
    ELSE LET onchain == response.entry
             extra == IF onchain.uri # <<>> /\ onchain.json.kind = "found"
                      THEN onchain.json.entry
                      ELSE [description |-> Null, image |-> Null, external_url |-> Null]
         IN  Some([name |-> IF onchain.name # <<>> THEN Some(onchain.name) ELSE Null,
                   symbol |-> IF onchain.symbol # <<>> THEN Some(onchain.symbol) ELSE Null,
                   description |-> extra.description,
                   image |-> extra.image,
                   website |-> extra.external_url])

\* getTokenPriceData: the keys of priceData that were assigned, and their
\* values.  A CoinGecko body is keyed by address: tokenData is
\* cgData[mint.toLowerCase()].  parseFloat of a missing or unparsable number
\* is NaN, which every reader treats as it treats null: it is Null here.
getTokenPriceData(mint, coingecko, dex) ==
    LET cgHit == coingecko.kind = "found" /\ coingecko.entry.key = toLowerCase(mint)
        dexHit == dex.kind = "found"
        cgPrice == IF cgHit THEN coingecko.entry.usd ELSE Null
    IN  IF coingecko.kind = "throw" \/ dex.kind = "throw"
        THEN \* catch (error) { return {} }
             [keys |-> {}, price |-> Null, marketCap |-> Null,
              volume24h |-> Null, liquidity |-> Null]
        ELSE [keys |-> (IF cgHit THEN {"price", "marketCap"} ELSE {})
                       \cup (IF dexHit THEN {"price", "volume24h", "liquidity"} ELSE {}),
              price |-> IF dexHit
                        THEN (IF TruthyNum(cgPrice) THEN cgPrice ELSE dex.entry.priceUsd)
                        ELSE cgPrice,
              marketCap |-> IF cgHit THEN coingecko.entry.usd_market_cap ELSE Null,
              volume24h |-> IF dexHit THEN Some(OrZero(dex.entry.volume)) ELSE Null,
              liquidity |-> IF dexHit THEN Some(OrZero(dex.entry.liquidity)) ELSE Null]

\* a || b for nullable strings
OrElse(a, b) ==
    IF TruthyStr(a) THEN a ELSE b

\* `Token (${mint.slice(0, 4)}...${mint.slice(-4)})`
PlaceholderName(mint) ==
    <<"T", "o", "k", "e", "n", " ", "(">> \o sliceHead(mint, 4)
        \o <<".", ".", ".">> \o sliceTail(mint, 4) \o <<")">>

EmptyMetadata(mint) ==
    [mint |-> mint, name |-> Null, symbol |-> Null, image |-> Null,
     decimals |-> Null, description |-> Null, website |-> Null,
     verified |-> FALSE, price |-> Null, marketCap |-> Null,
     volume24h |-> Null, liquidity |-> Null]

\* lines 208-230: the Jupiter token list
MergeJupiter(metadata, jupiter) ==
    IF jupiter.kind # "found"
    THEN metadata
    ELSE LET token == jupiter.entry
         IN  [metadata EXCEPT !.name = token.name,
                              !.symbol = token.symbol,
                              !.image = token.logoURI,
                              !.decimals = token.decimals,
                              !.verified = token.verified,
                              !.description = token.description,
                              !.website = IF token.hasExtensions
                                          THEN token.website
                                          ELSE @]

\* the Solana token list is fetched only when there is neither name nor symbol
SolanaListQueriedWithoutIdentity(metadata) ==
    ~TruthyStr(metadata.name) /\ ~TruthyStr(metadata.symbol)

\* line 233: if (!metadata.name)
SolanaListQueried(metadata) ==
    ~TruthyStr(metadata.name)

\* lines 232-252: the Solana token list, only when there is no name yet
MergeSolanaList(metadata, solana) ==
    IF ~SolanaListQueried(metadata) \/ solana.kind # "found"
    THEN metadata
    ELSE LET token == solana.entry
         IN  [metadata EXCEPT !.name = token.name,
                              !.symbol = token.symbol,
                              !.image = token.logoURI,
                              !.decimals = token.decimals,
                              !.verified = TRUE]

\* line 255: if (!metadata.name)
MetaplexQueried(metadata) ==
    ~TruthyStr(metadata.name)

\* lines 254-268: Metaplex, only when there is no name yet
MergeMetaplex(metadata, metaplex) ==
    LET metaplexData == fetchMetaplexMetadataUmi(metaplex)
    IN  IF ~MetaplexQueried(metadata) \/ metaplexData = Null
        THEN metadata
        ELSE [metadata EXCEPT !.name = metaplexData[1].name,
                              !.symbol = metaplexData[1].symbol,
                              !.image = OrElse(metaplexData[1].image, @),
                              !.description = OrElse(metaplexData[1].description, @),
                              !.website = OrElse(metaplexData[1].website, @)]

\* the placeholder identity, only when there is neither name nor symbol
MergePlaceholderWithoutIdentity(metadata) ==
    IF TruthyStr(metadata.name) \/ TruthyStr(metadata.symbol)
    THEN metadata
    ELSE [metadata EXCEPT !.name = Some(PlaceholderName(metadata.mint)),
                          !.symbol = Some(sliceHead(metadata.mint, 4))]

\* lines 270-274: the placeholder identity
MergePlaceholder(metadata) ==
    IF TruthyStr(metadata.name)
    THEN metadata
    ELSE [metadata EXCEPT !.name = Some(PlaceholderName(metadata.mint)),
                          !.symbol = Some(sliceHead(metadata.mint, 4))]

\* line 278: Object.assign(metadata, priceData)
ObjectAssign(metadata, priceData) ==
    [metadata EXCEPT
        !.price = IF "price" \in priceData.keys THEN priceData.price ELSE @,
        !.marketCap = IF "marketCap" \in priceData.keys THEN priceData.marketCap ELSE @,
        !.volume24h = IF "volume24h" \in priceData.keys THEN priceData.volume24h ELSE @,
        !.liquidity = IF "liquidity" \in priceData.keys THEN priceData.liquidity ELSE @]

\* responses: what each provider answers for this mint
fetchEnhancedTokenMetadata(mint, responses) ==
    LET m1 == MergeJupiter(EmptyMetadata(mint), responses.jupiter)
        m2 == MergeSolanaList(m1, responses.solana)
        m3 == MergeMetaplex(m2, responses.metaplex)
        m4 == MergePlaceholder(m3)
    IN  ObjectAssign(m4, getTokenPriceData(mint, responses.coingecko, responses.dex))

----------------------------------------------------------------------------
(* Sample inputs *)

\* EPjFWdd5AufqSSqeM2qN1xzybapC8G4wEGGkZwyTDt1v
UsdcMint ==
    <<"E", "P", "j", "F", "W", "d", "d", "5", "A", "u", "f", "q", "S", "S", "q", "e", "M", "2", "q", "N", "1", "x", "z", "y", "b", "a", "p", "C", "8", "G", "4", "w", "E", "G", "G", "k", "Z", "w", "y", "T", "D", "t", "1", "v">>

NameUsdCoin ==
    <<"U", "S", "D", " ", "C", "o", "i", "n">>

NameFreeAirdrop ==
    <<"F", "r", "e", "e", " ", "A", "i", "r", "d", "r", "o", "p">>

SymbolUsdc ==
    <<"U", "S", "D", "C">>

SymbolTest ==
    <<"T", "E", "S", "T">>

DelegateAddress ==
    <<"D", "e", "l", "e", "g", "a", "t", "e">>

RiskNames ==
    {Null, Some(<<>>), Some(NameUsdCoin), Some(NameFreeAirdrop)}

RiskSymbols ==
    {Null, Some(SymbolUsdc), Some(SymbolTest)}

RiskPrices ==
    {Null, Some(0), Some(1), Some(PriceUnitsPerUsd)}

RiskLiquidities ==
    {Null, Some(0), Some(500), Some(5000)}

RiskVolumes ==
    {Null, Some(0), Some(500)}

RiskMarketCaps ==
    {Null, Some(1000), Some(1000000)}

\* the metadata records handed to the classifier
RiskMetadata ==
    [mint : {ScamMint1, UsdcMint},
     name : RiskNames,
     symbol : RiskSymbols,
     verified : BOOLEAN,
     price : RiskPrices,
     liquidity : RiskLiquidities,
     volume24h : RiskVolumes,
     marketCap : RiskMarketCaps]

\* the token accounts handed to the classifier
RiskAccounts ==
    [delegate : {Null, Some(DelegateAddress)}]

----------------------------------------------------------------------------
(* Scan handler: operators *)

Base58Alphabet ==
    {"1", "2", "3", "4", "5", "6", "7", "8", "9", "A", "B", "C", "D", "E",
    "F", "G", "H", "J", "K", "L", "M", "N", "P", "Q", "R", "S", "T", "U",
    "V", "W", "X", "Y", "Z", "a", "b", "c", "d", "e", "f", "g", "h", "i",
    "j", "k", "m", "n", "o", "p", "q", "r", "s", "t", "u", "v", "w", "x",
    "y", "z"}

\* new PublicKey(walletAddress) does not throw.  The library decodes base 58
\* and requires 32 bytes; here: base-58 characters only, 32 to 44 of them.
IsPublicKey(address) ==
    /\ Len(address) >= 32
    /\ Len(address) <= 44
    /\ \A i \in DOMAIN address : address[i] \in Base58Alphabet

RECURSIVE Pow10(_)
Pow10(d) ==
    IF d = 0 THEN 1 ELSE 10 * Pow10(d - 1)

\* isNFT that looks at the decimals alone
isNFTAnyAmount(tokenInfo) ==
    tokenInfo.tokenAmount.decimals = 0

\* lines 420-422
isNFT(tokenInfo) ==
    /\ tokenInfo.tokenAmount.decimals = 0
    /\ tokenInfo.tokenAmount.uiAmount = Some(UiScale)

\* valueUsd from the raw amount instead of uiAmount
valueUsdOfRawAmount(tokenInfo, metadata) ==
    IF TruthyNum(metadata.price)
    THEN Some(tokenInfo.tokenAmount.amount * metadata.price[1])
    ELSE Null

\* lines 455-457: metadata.price ? (uiAmount || 0) * metadata.price : null
valueUsd(tokenInfo, metadata) ==
    IF TruthyNum(metadata.price)
    THEN Some(OrZero(tokenInfo.tokenAmount.uiAmount) * metadata.price[1])
    ELSE Null

DefaultSymbol ==
    <<"U", "N", "K", "N", "O", "W", "N">>

DefaultTokenName ==
    <<"U", "n", "k", "n", "o", "w", "n", " ", "T", "o", "k", "e", "n">>

DefaultNftName ==
    <<"U", "n", "k", "n", "o", "w", "n", " ", "N", "F", "T">>

\* lines 432-458; pubkey is the account's address (its place in the RPC's list)
TokenData(pubkey, tokenInfo, metadata, verdict) ==
    [mint |-> tokenInfo.mint,
     amount |-> tokenInfo.tokenAmount.amount,
     decimals |-> tokenInfo.tokenAmount.decimals,
     uiAmount |-> OrZero(tokenInfo.tokenAmount.uiAmount),
     symbol |-> IF TruthyStr(metadata.symbol) THEN metadata.symbol[1] ELSE DefaultSymbol,
     name |-> IF TruthyStr(metadata.name) THEN metadata.name[1] ELSE DefaultTokenName,
     image |-> metadata.image,
     description |-> metadata.description,
     website |-> metadata.website,
     verified |-> metadata.verified,
     price |-> metadata.price,
     marketCap |-> metadata.marketCap,
     volume24h |-> metadata.volume24h,
     liquidity |-> metadata.liquidity,
     riskLevel |-> verdict.riskLevel,
     issues |-> verdict.issues,
     delegate |-> tokenInfo.delegate,
     tokenAccount |-> pubkey,
     valueUsd |-> valueUsd(tokenInfo, metadata)]

\* lines 461-468
NftData(tokenInfo, metadata, verdict) ==
    [mint |-> tokenInfo.mint,
     name |-> IF TruthyStr(metadata.name) THEN metadata.name[1] ELSE DefaultNftName,
     image |-> metadata.image,
     description |-> metadata.description,
     riskLevel |-> verdict.riskLevel,
     issues |-> verdict.issues]

\* line 490: the comparator (a, b) => (b.valueUsd || 0) - (a.valueUsd || 0)
CompareByValue(a, b) ==
    OrZero(b.valueUsd) - OrZero(a.valueUsd)

\* t placed after every element the comparator does not put behind it
InsertSorted(sorted, t) ==
    LET k == Cardinality({i \in DOMAIN sorted : CompareByValue(sorted[i], t) <= 0})
    IN  SubSeq(sorted, 1, k) \o <<t>> \o SubSeq(sorted, k + 1, Len(sorted))

RECURSIVE SortTokens(_)
\* Array.prototype.sort with CompareByValue: a stable sort
SortTokens(seq) ==
    IF seq = <<>>
    THEN <<>>
    ELSE InsertSorted(SortTokens(SubSeq(seq, 1, Len(seq) - 1)), seq[Len(seq)])

RECURSIVE SumValues(_)
\* lines 475-478: tokens.reduce((sum, token) => sum + (token.valueUsd || 0), 0)
SumValues(seq) ==
    IF seq = <<>>
    THEN 0
    ELSE SumValues(SubSeq(seq, 1, Len(seq) - 1)) + OrZero(seq[Len(seq)].valueUsd)

\* lines 482-487: allAssets.filter((asset) => asset.riskLevel === level).length
CountLevel(allLevels, level) ==
    Cardinality({i \in DOMAIN allLevels : allLevels[i] = level})

\* RiskScore with Math.floor in the place of Math.round
RiskScoreTruncated(suspiciousCount, maliciousCount, assetCount) ==
    Min(100, ((suspiciousCount * 5 + maliciousCount * 10) * 10) \div Max(1, assetCount))

\* lines 498-505
RiskScore(suspiciousCount, maliciousCount, assetCount) ==
    Min(100, MathRound((suspiciousCount * 5 + maliciousCount * 10) * 10,
                       Max(1, assetCount)))

\* the advice strings, without their leading emoji
AdviceResearch ==
    "Research suspicious tokens before trading"

AdviceCloseMalicious ==
    "Immediately review and close malicious token accounts"

AdviceRevoke ==
    "Revoke unnecessary token approvals"

AdviceHardwareWallet ==
    "Consider using a hardware wallet for security"

AdviceGeneral ==
    "Check token metrics on trusted explorers before trading"

\* line 511: totalValue > 1000
HardwareWalletUsd ==
    1000

\* Recommendations with the revoke advice tied to maliciousCount
RecommendationsRevokeOnMalicious(suspiciousCount, maliciousCount, delegates, totalValue) ==
    (IF suspiciousCount > 0 THEN <<AdviceResearch>> ELSE <<>>)
    \o (IF maliciousCount > 0 THEN <<AdviceCloseMalicious>> ELSE <<>>)
    \o (IF maliciousCount > 0 THEN <<AdviceRevoke>> ELSE <<>>)
    \o (IF totalValue > HardwareWalletUsd * ValueUnitsPerUsd
        THEN <<AdviceHardwareWallet>> ELSE <<>>)
    \o <<AdviceGeneral>>

\* lines 506-513: [cond && text, ..., text].filter(Boolean)
Recommendations(suspiciousCount, maliciousCount, delegates, totalValue) ==
    (IF suspiciousCount > 0 THEN <<AdviceResearch>> ELSE <<>>)
    \o (IF maliciousCount > 0 THEN <<AdviceCloseMalicious>> ELSE <<>>)
    \o (IF delegates > 0 THEN <<AdviceRevoke>> ELSE <<>>)
    \o (IF totalValue > HardwareWalletUsd * ValueUnitsPerUsd
        THEN <<AdviceHardwareWallet>> ELSE <<>>)
    \o <<AdviceGeneral>>

\* lines 474-514
BuildScanResult(tokenList, nftList, delegates) ==
    LET totalValue == SumValues(tokenList)
        allLevels == [i \in 1..Len(tokenList) |-> tokenList[i].riskLevel]
                     \o [i \in 1..Len(nftList) |-> nftList[i].riskLevel]
        suspiciousCount == CountLevel(allLevels, "suspicious")
        maliciousCount == CountLevel(allLevels, "malicious")
    IN  [tokens |-> SortTokens(tokenList),
         nfts |-> nftList,
         totalTokens |-> Len(tokenList),
         totalNFTs |-> Len(nftList),
         suspiciousTokens |-> suspiciousCount,
         maliciousTokens |-> maliciousCount,
         delegateApprovals |-> delegates,
         totalValueUsd |-> totalValue,
         riskScore |-> RiskScore(suspiciousCount, maliciousCount, Len(allLevels)),
         recommendations |->
             Recommendations(suspiciousCount, maliciousCount, delegates, totalValue)]

ImageUri ==
    <<"h", "t", "t", "p", "s", ":", "/", "/", "i", "m", "g">>

WalletAddress ==
    <<"7", "x", "K", "X", "t", "g", "2", "C", "W", "8", "7", "d", "9", "7", "T", "X", "J", "S", "D", "p", "b", "D", "5", "j", "B", "k", "h", "e", "T", "q", "A", "8", "3", "T", "Z", "R", "u", "J", "o", "s", "g", "A", "s", "U">>

NotAnAddress ==
    <<"n", "o", "t", "-", "a", "-", "w", "a", "l", "l", "e", "t">>

\* the requests: body is Null (no body), "malformed" or "json"; walletAddress
\* is the field of the parsed body
Events ==
    {[httpMethod |-> "OPTIONS", body |-> Null, walletAddress |-> Null],
     [httpMethod |-> "GET", body |-> Null, walletAddress |-> Null],
     [httpMethod |-> "POST", body |-> Null, walletAddress |-> Null],
     [httpMethod |-> "POST", body |-> Some("malformed"), walletAddress |-> Null],
     [httpMethod |-> "POST", body |-> Some("json"), walletAddress |-> Null],
     [httpMethod |-> "POST", body |-> Some("json"), walletAddress |-> Some(<<>>)],
     [httpMethod |-> "POST", body |-> Some("json"), walletAddress |-> Some(NotAnAddress)],
     [httpMethod |-> "POST", body |-> Some("json"), walletAddress |-> Some(WalletAddress)]}

\* account.account.data.parsed.info of a token account; the RPC gives
\* uiAmount = amount / 10^decimals, or null
Account(mint, amount, decimals, uiKnown, delegate) ==
    [mint |-> mint,
     tokenAmount |->
         [amount |-> amount,
          decimals |-> decimals,
          uiAmount |-> IF uiKnown
                       THEN Some((amount * UiScale) \div Pow10(decimals))
                       ELSE Null],
     delegate |-> delegate]

SampleAccounts ==
    {Account(UsdcMint, 0, 1, TRUE, Null),                     \* empty account
     Account(UsdcMint, 0, 1, TRUE, Some(DelegateAddress)),    \* empty, delegated
     Account(UsdcMint, 1, 0, TRUE, Null),                     \* one indivisible unit
     Account(UsdcMint, 1, 0, TRUE, Some(DelegateAddress)),    \* the same, delegated
     Account(UsdcMint, 10, 1, TRUE, Null),                    \* 1.0 of a divisible token
     Account(UsdcMint, 5, 1, TRUE, Some(DelegateAddress)),    \* 0.5, delegated
     Account(UsdcMint, 20, 1, TRUE, Null),                    \* 2.0
     Account(UsdcMint, 2, 0, TRUE, Null),                     \* 2 indivisible units
     Account(UsdcMint, 20, 1, FALSE, Null),                   \* uiAmount null
     Account(ScamMint1, 20, 1, TRUE, Null)}                   \* denylisted mint

AccountLists ==
    UNION {[1..n -> SampleAccounts] : n \in 0..MaxAccounts}

JupiterListed ==
    Found([name |-> Some(NameUsdCoin), symbol |-> Some(SymbolUsdc),
           logoURI |-> Some(ImageUri), decimals |-> Some(1), verified |-> TRUE,
           description |-> Null, hasExtensions |-> FALSE, website |-> Null])

JupiterSpam ==
    Found([name |-> Some(NameFreeAirdrop), symbol |-> Some(SymbolTest),
           logoURI |-> Null, decimals |-> Some(1), verified |-> FALSE,
           description |-> Null, hasExtensions |-> FALSE, website |-> Null])

\* a Jupiter entry whose name is a number
JupiterMalformed ==
    Found([name |-> Some(NotAString), symbol |-> Some(SymbolUsdc),
           logoURI |-> Null, decimals |-> Some(1), verified |-> FALSE,
           description |-> Null, hasExtensions |-> FALSE, website |-> Null])

MetaplexOnChain ==
    Found([name |-> NameUsdCoin, symbol |-> SymbolUsdc, uri |-> ImageUri,
           json |-> Failed])

CoinGecko(mint, usd, cap) ==
    Found([key |-> toLowerCase(mint), usd |-> usd, usd_market_cap |-> cap])

DexPair(priceUsd, volume, liquidity) ==
    Found([priceUsd |-> priceUsd, volume |-> volume, liquidity |-> liquidity])

Responses(jupiter, solana, metaplex, coingecko, dex) ==
    [jupiter |-> jupiter, solana |-> solana, metaplex |-> metaplex,
     coingecko |-> coingecko, dex |-> dex]

\* what the providers may answer for a mint during a scan
ScanResponses(mint) ==
    {\* listed and verified, 600 USD a token
     Responses(JupiterListed, NoEntry, Failed,
               CoinGecko(mint, Some(600 * PriceUnitsPerUsd), Some(1000000)), Failed),
     \* listed and verified, no market data
     Responses(JupiterListed, NoEntry, Failed, Failed, Unparsable),
     \* listed and verified, a price of 0
     Responses(JupiterListed, NoEntry, Failed, CoinGecko(mint, Some(0), Null), NoEntry),
     \* promotional name, unverified, no market data
     Responses(JupiterSpam, NoEntry, Failed, NoEntry, NoEntry),
     \* every provider unreachable
     Responses(Failed, Failed, Failed, Failed, Failed),
     \* only on chain, traded on a DEX below the low-price threshold
     Responses(NoEntry, NoEntry, MetaplexOnChain, NoEntry,
               DexPair(Some(1), Some(500), Some(5000))),
     \* listed and verified, liquidity above twice the market cap
     Responses(JupiterListed, NoEntry, Failed,
               CoinGecko(mint, Some(PriceUnitsPerUsd), Some(1000)),
               DexPair(Some(PriceUnitsPerUsd), Some(500), Some(5000))),
     \* listed with a name that is not a string
     Responses(JupiterMalformed, NoEntry, Failed, NoEntry, NoEntry)}

----------------------------------------------------------------------------
(* The classifier run rule by rule (specification SpecRisk) *)

FetchIdle ==
    /\ fpc = "off"
    /\ fmint = Null
    /\ fresponses = Null
    /\ faccount = Null
    /\ fmetadata = Null
    /\ fqueried = <<>>
    /\ fverdict = Null

\* no scanner component is mounted
ScannerIdle ==
    /\ component = "none"
    /\ upc = "off"
    /\ connected = FALSE
    /\ walletAddress = <<>>
    /\ isScanning = FALSE
    /\ scanProgress = 0
    /\ error = ""
    /\ alert = Null
    /\ shown = Null
    /\ ustep = 0
    /\ intervals = 0

\* no WalletActions component is mounted
ActionsIdle ==
    /\ isProcessing = Null
    /\ apc = "off"
    /\ publicKey = FALSE
    /\ tokenProp = Null
    /\ notice = Null

UiIdle ==
    /\ ScannerIdle
    /\ ActionsIdle

HandlerIdle ==
    /\ event = Null
    /\ pc = "off"
    /\ statusCode = 0
    /\ tokenAccounts = <<>>
    /\ idx = 0
    /\ tokens = <<>>
    /\ nfts = <<>>
    /\ delegateCount = 0
    /\ scanResult = Null

InitRisk ==
    /\ HandlerIdle
    /\ FetchIdle
    /\ UiIdle
    /\ rpc = "scam"
    /\ rmetadata \in RiskMetadata
    /\ raccount \in RiskAccounts
    /\ rkw = 1
    /\ riskLevel = InitialVerdict.riskLevel
    /\ issues = InitialVerdict.issues

Verdict ==
    [riskLevel |-> riskLevel, issues |-> issues]

\* a rule of the classifier: from position `from` to `to`, the verdict becomes v
RiskStep(from, to, v) ==
    /\ rpc = from
    /\ rpc' = to
    /\ riskLevel' = v.riskLevel
    /\ issues' = v.issues
    /\ UNCHANGED <<rmetadata, raccount, handlerVars, fetchVars, uiVars>>

RuleKnownScam ==
    /\ RiskStep("scam", "keyword", KnownScamCheck(Verdict, rmetadata))
    /\ UNCHANGED rkw

RuleKeyword ==
    /\ rkw <= Len(SUSPICIOUS_KEYWORDS)
    /\ RiskStep("keyword", "keyword",
                KeywordCheck(Verdict, rmetadata, SUSPICIOUS_KEYWORDS[rkw]))
    /\ rkw' = rkw + 1

RuleKeywordsDone ==
    /\ rkw > Len(SUSPICIOUS_KEYWORDS)
    /\ RiskStep("keyword", "identity", Verdict)
    /\ UNCHANGED rkw

RuleMissingIdentity ==
    /\ RiskStep("identity", "price", MissingIdentityCheck(Verdict, rmetadata))
    /\ UNCHANGED rkw

RuleLowPrice ==
    /\ RiskStep("price", "liquidity", LowPriceCheck(Verdict, rmetadata))
    /\ UNCHANGED rkw

RuleLowLiquidity ==
    /\ RiskStep("liquidity", "volume", LowLiquidityCheck(Verdict, rmetadata))
    /\ UNCHANGED rkw

RuleLowVolume ==
    /\ RiskStep("volume", "verified", LowVolumeCheck(Verdict, rmetadata))
    /\ UNCHANGED rkw

RuleUnverified ==
    /\ RiskStep("verified", "delegate", UnverifiedCheck(Verdict, rmetadata))
    /\ UNCHANGED rkw

RuleDelegate ==
    /\ RiskStep("delegate", "rugpull", DelegateCheck(Verdict, raccount))
    /\ UNCHANGED rkw

RuleRugPull ==
    /\ RiskStep("rugpull", "done", RugPullCheck(Verdict, rmetadata))
    /\ UNCHANGED rkw

NextRisk ==
    \/ RuleKnownScam
    \/ RuleKeyword
    \/ RuleKeywordsDone
    \/ RuleMissingIdentity
    \/ RuleLowPrice
    \/ RuleLowLiquidity
    \/ RuleLowVolume
    \/ RuleUnverified
    \/ RuleDelegate
    \/ RuleRugPull

SpecRisk ==
    InitRisk /\ [][NextRisk]_vars

\* the order safe < suspicious < malicious
Rank(level) ==
    CASE level = "safe" -> 0
      [] level = "suspicious" -> 1
      [] level = "malicious" -> 2

----------------------------------------------------------------------------
(* The scan handler (specification Spec) *)

RiskIdle ==
    /\ rpc = "off"
    /\ rmetadata = Null
    /\ raccount = Null
    /\ rkw = 0
    /\ riskLevel = "safe"
    /\ issues = <<>>

Init ==
    /\ RiskIdle
    /\ FetchIdle
    /\ UiIdle
    /\ event \in Events
    /\ pc = "start"
    /\ statusCode = 0
    /\ tokenAccounts = <<>>
    /\ idx = 0
    /\ tokens = <<>>
    /\ nfts = <<>>
    /\ delegateCount = 0
    /\ scanResult = Null

\* return { statusCode, ... } without a scan result
Respond(code) ==
    /\ pc' = "responded"
    /\ statusCode' = code
    /\ UNCHANGED <<event, tokenAccounts, idx, tokens, nfts, delegateCount,
                   scanResult, riskVars, fetchVars, uiVars>>

\* lines 369-371
HandleOptions ==
    /\ pc = "start"
    /\ event.httpMethod = "OPTIONS"
    /\ Respond(200)

\* lines 373-379
HandleMethodNotAllowed ==
    /\ pc = "start"
    /\ event.httpMethod \notin {"OPTIONS", "POST"}
    /\ Respond(405)

\* line 382, 521-531: JSON.parse throws
HandleMalformedBody ==
    /\ pc = "start"
    /\ event.httpMethod = "POST"
    /\ event.body = Some("malformed")
    /\ Respond(500)

\* lines 384-390
HandleMissingAddress ==
    /\ pc = "start"
    /\ event.httpMethod = "POST"
    /\ event.body # Some("malformed")
    /\ ~TruthyStr(event.walletAddress)
    /\ Respond(400)

\* line 395, 521-531: new PublicKey throws
HandleInvalidAddress ==
    /\ pc = "start"
    /\ event.httpMethod = "POST"
    /\ event.body # Some("malformed")
    /\ TruthyStr(event.walletAddress)
    /\ ~IsPublicKey(event.walletAddress[1])
    /\ Respond(500)

\* the RPC request is sent for any non-empty address
StartScanUnvalidated ==
    /\ pc = "start"
    /\ event.httpMethod = "POST"
    /\ event.body # Some("malformed")
    /\ TruthyStr(event.walletAddress)
    /\ pc' = "rpc"
    /\ UNCHANGED <<event, statusCode, tokenAccounts, idx, tokens, nfts,
                   delegateCount, scanResult, riskVars, fetchVars, uiVars>>

\* lines 392-398: the address is a public key, the RPC request is sent
StartScan ==
    /\ pc = "start"
    /\ event.httpMethod = "POST"
    /\ event.body # Some("malformed")
    /\ TruthyStr(event.walletAddress)
    /\ IsPublicKey(event.walletAddress[1])
    /\ pc' = "rpc"
    /\ UNCHANGED <<event, statusCode, tokenAccounts, idx, tokens, nfts,
                   delegateCount, scanResult, riskVars, fetchVars, uiVars>>

\* lines 398-401, 521-531: getParsedTokenAccountsByOwner rejects
RpcFails ==
    /\ pc = "rpc"
    /\ Respond(500)

\* lines 398-405: getParsedTokenAccountsByOwner resolves
RpcReturns ==
    /\ pc = "rpc"
    /\ tokenAccounts' \in AccountLists
    /\ pc' = "loop"
    /\ UNCHANGED <<event, statusCode, idx, tokens, nfts, delegateCount,
                   scanResult, riskVars, fetchVars, uiVars>>

\* lines 408-412: a zero balance account is skipped
SkipZeroBalance ==
    /\ pc = "loop"
    /\ idx < Len(tokenAccounts)
    /\ tokenAccounts[idx + 1].tokenAmount.uiAmount = Some(0)
    /\ idx' = idx + 1
    /\ UNCHANGED <<event, pc, statusCode, tokenAccounts, tokens, nfts,
                   delegateCount, scanResult, riskVars, fetchVars, uiVars>>

\* lines 408-472: one iteration of the loop for an account that is scanned
ScanAccount ==
    /\ pc = "loop"
    /\ idx < Len(tokenAccounts)
    /\ LET tokenInfo == tokenAccounts[idx + 1]
       IN  /\ tokenInfo.tokenAmount.uiAmount # Some(0)
           /\ \E responses \in ScanResponses(tokenInfo.mint) :
                LET metadata == fetchEnhancedTokenMetadata(tokenInfo.mint, responses)
                    verdict == assessEnhancedTokenRisk(metadata, tokenInfo)
                IN  /\ ~assessThrows(metadata)
                    /\ delegateCount' = IF TruthyStr(tokenInfo.delegate)
                                        THEN delegateCount + 1
                                        ELSE delegateCount
                    /\ IF isNFT(tokenInfo)
                       THEN /\ nfts' = Append(nfts, NftData(tokenInfo, metadata, verdict))
                            /\ tokens' = tokens
                       ELSE /\ tokens' = Append(tokens,
                                   TokenData(idx + 1, tokenInfo, metadata, verdict))
                            /\ nfts' = nfts
    /\ idx' = idx + 1
    /\ UNCHANGED <<event, pc, statusCode, tokenAccounts, scanResult, riskVars, fetchVars, uiVars>>

\* the catch answers 500 with the result of the holdings scanned so far
ScanAccountThrowsPartial ==
    /\ pc = "loop"
    /\ idx < Len(tokenAccounts)
    /\ LET tokenInfo == tokenAccounts[idx + 1]
       IN  /\ tokenInfo.tokenAmount.uiAmount # Some(0)
           /\ \E responses \in ScanResponses(tokenInfo.mint) :
                assessThrows(fetchEnhancedTokenMetadata(tokenInfo.mint, responses))
    /\ pc' = "responded"
    /\ statusCode' = 500
    /\ scanResult' = Some(BuildScanResult(tokens, nfts, delegateCount))
    /\ UNCHANGED <<event, tokenAccounts, idx, tokens, nfts, delegateCount,
                   riskVars, fetchVars, uiVars>>

\* lines 408-430, 521-531: assessEnhancedTokenRisk throws on the metadata of
\* an account, the exception leaves the loop and the catch answers 500
ScanAccountThrows ==
    /\ pc = "loop"
    /\ idx < Len(tokenAccounts)
    /\ LET tokenInfo == tokenAccounts[idx + 1]
       IN  /\ tokenInfo.tokenAmount.uiAmount # Some(0)
           /\ \E responses \in ScanResponses(tokenInfo.mint) :
                assessThrows(fetchEnhancedTokenMetadata(tokenInfo.mint, responses))
    /\ Respond(500)

\* lines 474-520: the loop is over, the result is built and returned
Finish ==
    /\ pc = "loop"
    /\ idx = Len(tokenAccounts)
    /\ scanResult' = Some(BuildScanResult(tokens, nfts, delegateCount))
    /\ tokens' = SortTokens(tokens)
    /\ statusCode' = 200
    /\ pc' = "responded"
    /\ UNCHANGED <<event, tokenAccounts, idx, nfts, delegateCount, riskVars, fetchVars, uiVars>>

Next ==
    \/ HandleOptions
    \/ HandleMethodNotAllowed
    \/ HandleMalformedBody
    \/ HandleMissingAddress
    \/ HandleInvalidAddress
    \/ StartScan
    \/ RpcFails
    \/ RpcReturns
    \/ SkipZeroBalance
    \/ ScanAccount
    \/ ScanAccountThrows
    \/ Finish

Spec ==
    Init /\ [][Next]_vars

----------------------------------------------------------------------------
(* The aggregation step on its own (specification SpecAggregate): lines    *)
(* 474-514 applied to every classified asset set of at most MaxAssets      *)
(* assets.  An asset carries the fields the aggregation reads.             *)

RiskLevels ==
    {"safe", "suspicious", "malicious"}

ClassifiedTokens ==
    [riskLevel : RiskLevels, valueUsd : {Null}]

ClassifiedNfts ==
    [riskLevel : RiskLevels]

InitAggregate ==
    /\ RiskIdle
    /\ FetchIdle
    /\ UiIdle
    /\ event = Null
    /\ pc = "aggregate"
    /\ statusCode = 0
    /\ tokenAccounts = <<>>
    /\ idx = 0
    /\ \E a \in 0..MaxAssets : \E b \in 0..(MaxAssets - a) :
          /\ tokens \in [1..a -> ClassifiedTokens]
          /\ nfts \in [1..b -> ClassifiedNfts]
    /\ delegateCount = 0
    /\ scanResult = Null

Aggregate ==
    /\ pc = "aggregate"
    /\ scanResult' = Some(BuildScanResult(tokens, nfts, delegateCount))
    /\ tokens' = SortTokens(tokens)
    /\ pc' = "aggregated"
    /\ UNCHANGED <<event, statusCode, tokenAccounts, idx, nfts, delegateCount, riskVars, fetchVars, uiVars>>

NextAggregate ==
    Aggregate

SpecAggregate ==
    InitAggregate /\ [][NextAggregate]_vars

----------------------------------------------------------------------------
(* The resolver run source by source for one holding, followed by the      *)
(* classification of the holding as the scan loop does it (specification   *)
(* SpecResolve): lines 190-281, then lines 417 and 430.                    *)

\* DezXAZ8z7PnrnRJjz3wXBoRgixCa6xjnB7YaB1pPB263
OtherMint ==
    <<"D", "e", "z", "X", "A", "Z", "8", "z", "7", "P", "n", "r", "n", "R",
      "J", "j", "z", "3", "w", "X", "B", "o", "R", "g", "i", "x", "C", "a",
      "6", "x", "j", "n", "B", "7", "Y", "a", "B", "1", "p", "P", "B", "2",
      "6", "3">>

DescriptionClaimReward ==
    <<"C", "l", "a", "i", "m", " ", "y", "o", "u", "r", " ", "r", "e", "w",
      "a", "r", "d">>

\* a Jupiter entry without a name
JupiterSymbolOnly ==
    Found([name |-> Null, symbol |-> Some(SymbolTest),
           logoURI |-> Some(ImageUri), decimals |-> Some(1), verified |-> FALSE,
           description |-> Null, hasExtensions |-> FALSE, website |-> Null])

\* a verified Jupiter entry whose description is promotional
JupiterPromoted ==
    Found([name |-> Some(NameUsdCoin), symbol |-> Some(SymbolUsdc),
           logoURI |-> Some(ImageUri), decimals |-> Some(1), verified |-> TRUE,
           description |-> Some(DescriptionClaimReward),
           hasExtensions |-> TRUE, website |-> Some(ImageUri)])

SolanaListed ==
    Found([name |-> Some(NameUsdCoin), symbol |-> Some(SymbolUsdc),
           logoURI |-> Null, decimals |-> Some(0)])

\* a Solana token list entry without a name
SolanaSymbolOnly ==
    Found([name |-> Null, symbol |-> Some(SymbolUsdc),
           logoURI |-> Some(ImageUri), decimals |-> Some(0)])

\* on-chain metadata with an empty name and a readable off-chain JSON
MetaplexOffChain ==
    Found([name |-> <<>>, symbol |-> SymbolTest, uri |-> ImageUri,
           json |-> Found([description |-> Some(DescriptionClaimReward),
                           image |-> Some(ImageUri),
                           external_url |-> Null])])

ResolveMints ==
    {UsdcMint, OtherMint}

ResolveJupiter ==
    {Failed, NoEntry, JupiterListed, JupiterSpam, JupiterSymbolOnly,
     JupiterPromoted, JupiterMalformed}

ResolveSolana ==
    {Failed, NoEntry, SolanaListed, SolanaSymbolOnly}

ResolveMetaplex ==
    {Failed, MetaplexOnChain, MetaplexOffChain}

ResolveCoinGecko(mint) ==
    {Failed, Unparsable, NoEntry,
     CoinGecko(mint, Some(PriceUnitsPerUsd), Some(1000)),
     CoinGecko(mint, Some(0), Null)}

ResolveDex ==
    {Failed, Unparsable, NoEntry, DexPair(Some(1), Some(500), Some(5000))}

\* what the providers may answer for a mint
ResolveResponses(mint) ==
    {Responses(j, s, m, c, d) :
        j \in ResolveJupiter, s \in ResolveSolana, m \in ResolveMetaplex,
        c \in ResolveCoinGecko(mint), d \in ResolveDex}

\* the token accounts the mint may be held in
ResolveAccounts(mint) ==
    {Account(mint, 1, 0, TRUE, Null),                     \* one indivisible unit
     Account(mint, 5000, 0, TRUE, Null),                  \* 5000 indivisible units
     Account(mint, 20, 1, TRUE, Null),                    \* 2.0 of a divisible token
     Account(mint, 20, 1, TRUE, Some(DelegateAddress))}   \* the same, delegated

InitResolve ==
    /\ HandlerIdle
    /\ RiskIdle
    /\ UiIdle
    /\ fpc = "jupiter"
    /\ fmint \in ResolveMints
    /\ fresponses \in ResolveResponses(fmint)
    /\ faccount \in ResolveAccounts(fmint)
    /\ fmetadata = EmptyMetadata(fmint)
    /\ fqueried = <<>>
    /\ fverdict = Null

\* a step of the resolver: from position `from` to `to`, metadata becomes m
ResolveStep(from, to, m) ==
    /\ fpc = from
    /\ fpc' = to
    /\ fmetadata' = m
    /\ UNCHANGED <<fmint, fresponses, faccount, fverdict, handlerVars, riskVars, uiVars>>

\* lines 208-230
QueryJupiter ==
    /\ ResolveStep("jupiter", "solana", MergeJupiter(fmetadata, fresponses.jupiter))
    /\ fqueried' = Append(fqueried, "jupiter")

\* lines 232-252
QuerySolanaList ==
    /\ ResolveStep("solana", "metaplex", MergeSolanaList(fmetadata, fresponses.solana))
    /\ fqueried' = IF SolanaListQueried(fmetadata)
                   THEN Append(fqueried, "solana")
                   ELSE fqueried

\* lines 254-268
QueryMetaplex ==
    /\ ResolveStep("metaplex", "placeholder",
                   MergeMetaplex(fmetadata, fresponses.metaplex))
    /\ fqueried' = IF MetaplexQueried(fmetadata)
                   THEN Append(fqueried, "metaplex")
                   ELSE fqueried

\* lines 270-274
SynthesizePlaceholder ==
    /\ ResolveStep("placeholder", "price", MergePlaceholder(fmetadata))
    /\ UNCHANGED fqueried

\* lines 276-280: the market data is merged and the metadata returned
AssignPriceData ==
    /\ ResolveStep("price", "assess",
                   ObjectAssign(fmetadata,
                       getTokenPriceData(fmint, fresponses.coingecko, fresponses.dex)))
    /\ UNCHANGED fqueried

\* line 430: const riskAssessment = assessEnhancedTokenRisk(metadata, tokenInfo)
Classify ==
    /\ fpc = "assess"
    /\ ~assessThrows(fmetadata)
    /\ fverdict' = Some(assessEnhancedTokenRisk(fmetadata, faccount))
    /\ fpc' = "classified"
    /\ UNCHANGED <<fmint, fresponses, faccount, fmetadata, fqueried,
                   handlerVars, riskVars, uiVars>>

\* line 430, 521-531: the classifier throws and the scan answers 500
ClassifyThrows ==
    /\ fpc = "assess"
    /\ assessThrows(fmetadata)
    /\ fpc' = "threw"
    /\ UNCHANGED <<fmint, fresponses, faccount, fmetadata, fqueried, fverdict,
                   handlerVars, riskVars, uiVars>>

NextResolve ==
    \/ QueryJupiter
    \/ QuerySolanaList
    \/ QueryMetaplex
    \/ SynthesizePlaceholder
    \/ AssignPriceData
    \/ Classify
    \/ ClassifyThrows

SpecResolve ==
    InitResolve /\ [][NextResolve]_vars

----------------------------------------------------------------------------
(* Claims about the classifier *)

\* C1: whenever assessEnhancedTokenRisk returns for a mint of
\* KNOWN_SCAM_TOKENS, the returned riskLevel is 'malicious', whatever the
\* other signals are.
C1_ScamAlwaysMalicious ==
    (rpc = "done" /\ rmetadata.mint \in KNOWN_SCAM_TOKENS) => riskLevel = "malicious"

\* C2: no rule of assessEnhancedTokenRisk lowers the risk level: across every
\* step of a run the level after the step is at least the level before it.
C2_LevelMonotonic ==
    [][Rank(riskLevel') >= Rank(riskLevel)]_vars

----------------------------------------------------------------------------
(* Claims about the scan result *)

\* the handler has answered 200 with a scan result
Scanned ==
    pc = "responded" /\ scanResult # Null

\* the accounts of the RPC's list that pass the zero-balance filter
ScannedAccounts ==
    {i \in DOMAIN tokenAccounts : tokenAccounts[i].tokenAmount.uiAmount # Some(0)}

\* decimals = 0 and uiAmount = 1
SingleIndivisibleUnit(i) ==
    /\ tokenAccounts[i].tokenAmount.decimals = 0
    /\ tokenAccounts[i].tokenAmount.uiAmount = Some(UiScale)

HasDelegate(i) ==
    TruthyStr(tokenAccounts[i].delegate)

\* the number of elements of S below or equal to i
RankIn(S, i) ==
    Cardinality({j \in S : j <= i})

CountOf(seq, x) ==
    Cardinality({i \in DOMAIN seq : seq[i] = x})

LevelCount(r, level) ==
    Cardinality({i \in DOMAIN r.tokens : r.tokens[i].riskLevel = level})
    + Cardinality({i \in DOMAIN r.nfts : r.nfts[i].riskLevel = level})

\* C3: riskScore is an integer in [0,100]; with n = tokens + NFTs > 0 it is
\* the integer nearest to 100 * (10 m + 5 s) / (10 n), a half rounding up, and
\* with n = 0 it is 0.
C3_RiskScore ==
    scanResult # Null =>
        LET r == scanResult[1]
            n == Len(r.tokens) + Len(r.nfts)
            points == 100 * (10 * LevelCount(r, "malicious") + 5 * LevelCount(r, "suspicious"))
        IN  /\ r.riskScore \in 0..100
            /\ n = 0 => r.riskScore = 0
            /\ n > 0 => /\ (2 * r.riskScore - 1) * (10 * n) <= 2 * points
                        /\ 2 * points < (2 * r.riskScore + 1) * (10 * n)

\* C3 witness: a result whose score is a rounded half (12.5 -> 13)
C3_Witness ==
    /\ scanResult # Null
    /\ Len(scanResult[1].tokens) + Len(scanResult[1].nfts) = 4
    /\ LevelCount(scanResult[1], "suspicious") = 1
    /\ LevelCount(scanResult[1], "malicious") = 0
    /\ scanResult[1].riskScore = 13

\* C4: no entry of the result's tokens has uiAmount 0.
C4_NoZeroAmount ==
    Scanned => \A i \in DOMAIN scanResult[1].tokens : scanResult[1].tokens[i].uiAmount # 0

\* C5: every scanned account is in exactly one of nfts and tokens, in nfts
\* exactly when decimals = 0 and uiAmount = 1, and totalTokens + totalNFTs is
\* the number of accounts that pass the zero-balance filter.
C5_Partition ==
    Scanned =>
        LET r == scanResult[1]
            nftAccounts == {i \in ScannedAccounts : SingleIndivisibleUnit(i)}
            tokenAccts == ScannedAccounts \ nftAccounts
        IN  /\ \A i \in tokenAccts :
                  Cardinality({k \in DOMAIN r.tokens : r.tokens[k].tokenAccount = i}) = 1
            /\ \A k \in DOMAIN r.tokens : r.tokens[k].tokenAccount \in tokenAccts
            /\ Len(r.nfts) = Cardinality(nftAccounts)
            /\ \A i \in nftAccounts :
                  r.nfts[RankIn(nftAccounts, i)].mint = tokenAccounts[i].mint
            /\ r.totalTokens = Len(r.tokens)
            /\ r.totalNFTs = Len(r.nfts)
            /\ r.totalTokens + r.totalNFTs = Cardinality(ScannedAccounts)

\* C5 witness: a scan with an NFT and a zero-decimal holding of two units that is
\* a token
C5_Witness ==
    /\ Scanned
    /\ \E i \in ScannedAccounts : SingleIndivisibleUnit(i)
    /\ \E i \in ScannedAccounts :
          /\ tokenAccounts[i].tokenAmount.decimals = 0
          /\ ~SingleIndivisibleUnit(i)
    /\ scanResult[1].totalNFTs = 1
    /\ scanResult[1].totalTokens = 1

\* the verdict (riskLevel, issues) of scanned account i in result r
VerdictOf(r, i) ==
    LET nftAccounts == {j \in ScannedAccounts : SingleIndivisibleUnit(j)}
    IN  IF i \in nftAccounts
        THEN r.nfts[RankIn(nftAccounts, i)]
        ELSE r.tokens[CHOOSE k \in DOMAIN r.tokens : r.tokens[k].tokenAccount = i]

\* C6: every scanned account with a delegate is counted in delegateApprovals,
\* and its verdict is not 'safe' and has the active-delegate-approval issue.
C6_DelegateFlagged ==
    Scanned =>
        LET r == scanResult[1]
            delegated == {i \in ScannedAccounts : HasDelegate(i)}
        IN  /\ r.delegateApprovals = Cardinality(delegated)
            /\ \A i \in delegated :
                  /\ VerdictOf(r, i).riskLevel # "safe"
                  /\ IssueDelegate \in Range(VerdictOf(r, i).issues)

\* C6 witness: a delegated token and a delegated NFT, both scanned
C6_Witness ==
    /\ Scanned
    /\ \E i \in ScannedAccounts : HasDelegate(i) /\ SingleIndivisibleUnit(i)
    /\ \E i \in ScannedAccounts : HasDelegate(i) /\ ~SingleIndivisibleUnit(i)
    /\ scanResult[1].delegateApprovals = 2

\* C7: delegateApprovals is the number of entries of result.tokens (NFTs
\* excluded) whose delegate is non-empty.
C7_DelegatesOfTokensOnly ==
    Scanned =>
        scanResult[1].delegateApprovals =
            Cardinality({k \in DOMAIN scanResult[1].tokens :
                            TruthyStr(scanResult[1].tokens[k].delegate)})

RECURSIVE SumPriced(_)
\* the sum of uiAmount * price over the entries with a non-null price
SumPriced(seq) ==
    IF seq = <<>>
    THEN 0
    ELSE SumPriced(SubSeq(seq, 1, Len(seq) - 1))
         + (IF seq[Len(seq)].price # Null
            THEN seq[Len(seq)].uiAmount * seq[Len(seq)].price[1]
            ELSE 0)

\* C8: totalValueUsd is the sum of uiAmount * price over the tokens of the
\* result whose price is not null; a token without a price adds nothing.
C8_TotalValue ==
    Scanned => scanResult[1].totalValueUsd = SumPriced(scanResult[1].tokens)

\* C8 witness: a priced token of two indivisible units next to a token
\* without a price
C8_Witness ==
    /\ Scanned
    /\ \E k \in DOMAIN scanResult[1].tokens :
          /\ scanResult[1].tokens[k].price = Null
          /\ scanResult[1].tokens[k].uiAmount > 0
    /\ \E k \in DOMAIN scanResult[1].tokens :
          /\ TruthyNum(scanResult[1].tokens[k].price)
          /\ scanResult[1].tokens[k].decimals = 0
    /\ scanResult[1].totalValueUsd > 0

\* C9: result.tokens is in descending order of valueUsd, and every token
\* without a resolved value (null) comes after every token with one.
C9_SortedNullLast ==
    Scanned =>
        LET t == scanResult[1].tokens
        IN  /\ \A i, j \in DOMAIN t :
                  (i < j /\ t[i].valueUsd # Null /\ t[j].valueUsd # Null)
                      => t[i].valueUsd[1] >= t[j].valueUsd[1]
            /\ \A i, j \in DOMAIN t :
                  (t[i].valueUsd = Null /\ t[j].valueUsd # Null) => j < i

\* C10: the recommendations hold the research advice iff suspiciousTokens > 0,
\* the close-malicious advice iff maliciousTokens > 0, the revoke advice iff
\* delegateApprovals > 0, the hardware-wallet advice iff totalValueUsd > 1000
\* USD, each at most once, and end with the general advice; when nothing was
\* scanned they are the general advice alone.
C10_Recommendations ==
    Scanned =>
        LET r == scanResult[1]
            recs == r.recommendations
        IN  /\ (AdviceResearch \in Range(recs)) <=> (r.suspiciousTokens > 0)
            /\ (AdviceCloseMalicious \in Range(recs)) <=> (r.maliciousTokens > 0)
            /\ (AdviceRevoke \in Range(recs)) <=> (r.delegateApprovals > 0)
            /\ (AdviceHardwareWallet \in Range(recs))
                   <=> (r.totalValueUsd > HardwareWalletUsd * ValueUnitsPerUsd)
            /\ \A a \in Range(recs) : CountOf(recs, a) = 1
            /\ recs # <<>> /\ recs[Len(recs)] = AdviceGeneral
            /\ ScannedAccounts = {} => recs = <<AdviceGeneral>>

\* C10 witness: a scan that earns all four conditional advices
C10_Witness ==
    /\ Scanned
    /\ Len(scanResult[1].recommendations) = 5

----------------------------------------------------------------------------
(* Claims about one holding, resolved and classified (SpecResolve) *)

Classified ==
    fpc = "classified"

\* the issues of the holding's verdict
VerdictIssues ==
    Range(fverdict[1].issues)

SymbolSol ==
    <<"S", "O", "L">>

\* So11111111111111111111111111111111111111112
SolMint ==
    <<"S", "o", "1", "1", "1", "1", "1", "1", "1", "1", "1", "1", "1", "1",
      "1", "1", "1", "1", "1", "1", "1", "1", "1", "1", "1", "1", "1", "1",
      "1", "1", "1", "1", "1", "1", "1", "1", "1", "1", "1", "1", "1", "1",
      "2">>

\* the well-known symbols and the one mint each of them belongs to
CanonicalMints ==
    {[symbol |-> SymbolUsdc, mint |-> UsdcMint],
     [symbol |-> SymbolSol, mint |-> SolMint]}

IssueImpersonation(symbol) ==
    <<"May impersonate ">> \o symbol

\* C11: a holding whose resolved symbol equals, ignoring case, a well-known
\* symbol while its mint is not that symbol's mint is classified malicious,
\* with an issue naming the impersonated asset.
C11_ImpersonationMalicious ==
    Classified =>
        \A c \in CanonicalMints :
            (/\ TruthyStr(fmetadata.symbol)
             /\ toLowerCase(fmetadata.symbol[1]) = toLowerCase(c.symbol)
             /\ fmint # c.mint)
            => /\ fverdict[1].riskLevel = "malicious"
               /\ IssueImpersonation(c.symbol) \in VerdictIssues

IssueBulkHolding ==
    <<"High quantity of non-divisible tokens">>

\* C12: a holding of 5000 units of a mint with 0 decimals that raises no
\* other issue is a fungible token and is classified suspicious, with the
\* issue of a high quantity of non-divisible tokens.
C12_BulkHoldingSuspicious ==
    (/\ Classified
     /\ faccount.tokenAmount.decimals = 0
     /\ faccount.tokenAmount.uiAmount = Some(5000 * UiScale)
     /\ VerdictIssues \subseteq {IssueBulkHolding})
    => /\ ~isNFT(faccount)
       /\ fverdict[1].riskLevel = "suspicious"
       /\ IssueBulkHolding \in VerdictIssues

\* the keyword occurs, ignoring case, in the name, symbol or description
KeywordOccurs(metadata, keyword) ==
    \/ includes(toLowerCase(OrEmpty(metadata.name)), keyword)
    \/ includes(toLowerCase(OrEmpty(metadata.symbol)), keyword)
    \/ includes(toLowerCase(OrEmpty(metadata.description)), keyword)

\* C13: for every keyword of SUSPICIOUS_KEYWORDS that occurs, ignoring case,
\* in the holding's name, symbol or description, the verdict is at least
\* suspicious and carries the issue of that keyword.
C13_KeywordAnyField ==
    Classified =>
        \A k \in 1..Len(SUSPICIOUS_KEYWORDS) :
            KeywordOccurs(fmetadata, SUSPICIOUS_KEYWORDS[k])
            => /\ fverdict[1].riskLevel # "safe"
               /\ IssueKeyword(SUSPICIOUS_KEYWORDS[k]) \in VerdictIssues

\* fetchEnhancedTokenMetadata has returned
Resolved ==
    fpc \in {"assess", "classified", "threw"}

\* the identity lookups are over
IdentityDone ==
    fpc \notin {"off", "jupiter", "solana", "metaplex"}

IdentitySources ==
    {"jupiter", "solana", "metaplex"}

\* what an identity source's answer holds for the mint, or Null
Supplied(source, field) ==
    LET response == fresponses[source]
    IN  IF source = "metaplex"
        THEN (IF fetchMetaplexMetadataUmi(response) = Null
              THEN Null
              ELSE fetchMetaplexMetadataUmi(response)[1][field])
        ELSE (IF response.kind = "found" THEN response.entry[field] ELSE Null)

\* C14: when every identity source fails or has no entry for the mint, the
\* holding's verdict is at least suspicious and contains the issue
\* 'No metadata available'.
C14_NoMetadataFlagged ==
    (/\ Classified
     /\ \A source \in IdentitySources : fresponses[source].kind # "found")
    => /\ fverdict[1].riskLevel # "safe"
       /\ IssueNoMetadata \in VerdictIssues

\* 'Token (' + the first four characters + '...' + the last four + ')'
PlaceholderOf(mint) ==
    <<"T", "o", "k", "e", "n", " ", "(">> \o SubSeq(mint, 1, 4)
        \o <<".", ".", ".">> \o SubSeq(mint, Len(mint) - 3, Len(mint)) \o <<")">>

C16_SymbolKept ==
    (/\ Resolved
     /\ \A source \in IdentitySources : ~TruthyStr(Supplied(source, "name"))
     /\ \E source \in IdentitySources : TruthyStr(Supplied(source, "symbol")))
    => \E source \in IdentitySources :
           /\ TruthyStr(Supplied(source, "symbol"))
           /\ fmetadata.symbol = Supplied(source, "symbol")

\* the nullable text fields of the identity
TextFields ==
    {"name", "symbol", "image", "description", "website"}

\* C17: a field a higher-priority source has populated is not changed by a
\* lower-priority source: not by the Solana list after Jupiter, not by
\* Metaplex after both, and a price or market cap of CoinGecko not by
\* DexScreener.
C17_FirstWriterWins ==
    [][/\ fpc \in {"solana", "metaplex"} =>
            /\ \A field \in TextFields :
                   TruthyStr(fmetadata[field]) => fmetadata'[field] = fmetadata[field]
            /\ fmetadata.decimals # Null => fmetadata'.decimals = fmetadata.decimals
            /\ fresponses.jupiter.kind = "found" =>
                   fmetadata'.verified = fmetadata.verified
       /\ (/\ fpc = "price"
           /\ fresponses.coingecko.kind = "found"
           /\ fresponses.dex.kind = "found") =>
            /\ fresponses.coingecko.entry.usd # Null =>
                   fmetadata'.price = fresponses.coingecko.entry.usd
            /\ fresponses.coingecko.entry.usd_market_cap # Null =>
                   fmetadata'.marketCap = fresponses.coingecko.entry.usd_market_cap
      ]_vars

\* the source supplies a name or a symbol
SuppliesIdentity(source) ==
    TruthyStr(Supplied(source, "name")) \/ TruthyStr(Supplied(source, "symbol"))

\* C18 as stated: the identity sources are queried in the order Jupiter,
\* Solana list, Metaplex, and none is queried after a source has supplied a
\* name or a symbol.
C18_StopsAtNameOrSymbol ==
    IdentityDone =>
        fqueried = IF SuppliesIdentity("jupiter")
                   THEN <<"jupiter">>
                   ELSE IF SuppliesIdentity("solana")
                        THEN <<"jupiter", "solana">>
                        ELSE <<"jupiter", "solana", "metaplex">>

\* C18 amended: the identity sources are queried in the order Jupiter, Solana
\* list, Metaplex, and none is queried after a source has supplied a name; a
\* symbol without a name does not end the lookups.
C18_StopsAtName ==
    IdentityDone =>
        fqueried = IF TruthyStr(Supplied("jupiter", "name"))
                   THEN <<"jupiter">>
                   ELSE IF TruthyStr(Supplied("solana", "name"))
                        THEN <<"jupiter", "solana">>
                        ELSE <<"jupiter", "solana", "metaplex">>

\* Jupiter supplied a symbol without a name and the Solana list was queried
\* and supplied the name
C18_Witness ==
    /\ IdentityDone
    /\ fresponses.jupiter = JupiterSymbolOnly
    /\ fresponses.solana = SolanaListed
    /\ fqueried = <<"jupiter", "solana">>

\* C20: a market data source that fails (rejected request, non-OK status,
\* unparsable body) does not remove what the other one supplied: CoinGecko's
\* price and market cap when DexScreener fails, DexScreener's price, volume
\* and liquidity when CoinGecko fails.
C20_MarketDataIsolated ==
    Resolved =>
        LET coingecko == fresponses.coingecko
            dex == fresponses.dex
        IN  /\ (/\ coingecko.kind = "found"
                /\ coingecko.entry.key = toLowerCase(fmint)
                /\ dex.kind \in {"fail", "throw"})
               => /\ fmetadata.price = coingecko.entry.usd
                  /\ fmetadata.marketCap = coingecko.entry.usd_market_cap
            /\ (dex.kind = "found" /\ coingecko.kind \in {"fail", "throw"})
               => /\ fmetadata.price = dex.entry.priceUsd
                  /\ fmetadata.volume24h = Some(OrZero(dex.entry.volume))
                  /\ fmetadata.liquidity = Some(OrZero(dex.entry.liquidity))

----------------------------------------------------------------------------
(* Claims about provider failures during a scan (Spec) *)

\* C19: whatever the metadata and price providers answer, once the RPC has
\* returned holdings the scan ends with a 200 result that holds every
\* holding with a non-zero balance.
C19_ProviderFailuresAbsorbed ==
    (pc = "responded" /\ tokenAccounts # <<>>)
    => /\ statusCode = 200
       /\ scanResult # Null
       /\ Len(scanResult[1].tokens) + Len(scanResult[1].nfts)
              = Cardinality(ScannedAccounts)

----------------------------------------------------------------------------
(* Claims about the error paths of the scan handler (Spec) *)

\* the request is a POST whose owner identifier is missing or is not a
\* public key
NoValidOwner ==
    /\ event.httpMethod = "POST"
    /\ \/ event.walletAddress = Null
       \/ ~IsPublicKey(event.walletAddress[1])

\* C21: when the owner identifier of the request is not a well-formed
\* address, the handler answers with an error and the scan never starts: the
\* RPC request is never sent and no holding is resolved.
C21_InvalidOwnerNeverScans ==
    NoValidOwner =>
        /\ pc \in {"start", "responded"}
        /\ tokenAccounts = <<>>
        /\ idx = 0
        /\ tokens = <<>>
        /\ nfts = <<>>
        /\ scanResult = Null
        /\ pc = "responded" => statusCode \in {400, 500}

\* an identifier that is not an address has been answered with 500
C21_Witness ==
    /\ pc = "responded"
    /\ event.walletAddress = Some(NotAnAddress)
    /\ statusCode = 500

\* C22: a POST is answered either with 200 and a result that holds every
\* holding with a non-zero balance, or with an error and no result at all;
\* a failure in the middle of the loop gives no partly filled result.
C22_AllOrNothing ==
    (pc = "responded" /\ event.httpMethod = "POST") =>
        IF statusCode = 200
        THEN /\ scanResult # Null
             /\ Len(scanResult[1].tokens) + Len(scanResult[1].nfts)
                    = Cardinality(ScannedAccounts)
             /\ scanResult[1].totalTokens = Len(scanResult[1].tokens)
             /\ scanResult[1].totalNFTs = Len(scanResult[1].nfts)
        ELSE /\ statusCode \in {400, 500}
             /\ scanResult = Null

\* the scan failed on the second holding, after the first was classified
C22_Witness ==
    /\ pc = "responded"
    /\ statusCode = 500
    /\ Len(tokens) + Len(nfts) = 1
    /\ idx = 1
    /\ scanResult = Null

----------------------------------------------------------------------------
(* Claims about the market rules and the order of the issues *)

\* the metadata without its market data
WithoutMarketData(metadata) ==
    [metadata EXCEPT !.price = Null, !.marketCap = Null,
                     !.volume24h = Null, !.liquidity = Null]

\* C23: the verdict of an NFT (decimals = 0, uiAmount = 1) does not depend on
\* market data: it is the verdict the same holding gets without price,
\* liquidity, volume and market cap, whatever the verified flag.
C23_NftIgnoresMarketData ==
    (Classified /\ isNFT(faccount)) =>
        \A verified \in BOOLEAN :
            fverdict[1] = assessEnhancedTokenRisk(
                [WithoutMarketData(fmetadata) EXCEPT !.verified = verified],
                faccount)

\* C24: a market field that is present, the value 0 included, is judged: a
\* price below 0.0001, a liquidity below 1000, a 24h volume below 100 each
\* give a verdict that is at least suspicious and carries their issue.
C24_PresentFieldJudged ==
    rpc = "done" =>
        /\ (rmetadata.price # Null /\ rmetadata.price[1] < LowPriceThreshold)
           => (riskLevel # "safe" /\ IssueLowPrice \in Range(issues))
        /\ (rmetadata.liquidity # Null
            /\ rmetadata.liquidity[1] < LowLiquidityThreshold)
           => (riskLevel # "safe" /\ IssueLowLiquidity \in Range(issues))
        /\ (rmetadata.volume24h # Null /\ rmetadata.volume24h[1] < LowVolumeThreshold)
           => (riskLevel # "safe" /\ IssueLowVolume \in Range(issues))

\* the place of an issue in the order known scam, missing identity, keyword,
\* delegate, market signal, unverified with activity
IssuePlace(issue) ==
    CASE issue = IssueKnownScam -> 1
      [] issue = IssueNoMetadata -> 2
      [] issue = IssueDelegate -> 4
      [] issue \in {IssueLowPrice, IssueLowLiquidity, IssueLowVolume, IssueRugPull} -> 5
      [] issue = IssueUnverified -> 6
      [] OTHER -> 3

\* C25: the issues are listed in the order known scam, missing identity,
\* keywords, delegate, market signals, unverified with activity.
C25_IssueOrder ==
    rpc = "done" =>
        \A i, j \in DOMAIN issues :
            i < j => IssuePlace(issues[i]) <= IssuePlace(issues[j])

\* C26: suspiciousTokens + maliciousTokens never exceeds totalTokens, so the
\* Safe count totalTokens - suspiciousTokens - maliciousTokens is not negative.
C26_SafeCountNotNegative ==
    Scanned =>
        scanResult[1].suspiciousTokens + scanResult[1].maliciousTokens
            <= scanResult[1].totalTokens

----------------------------------------------------------------------------
(* The scanner components in the browser (specification SpecScanner).      *)
(* A component's handler runs to its next await in one step; what happens  *)
(* after an await (the fetch settles, a timer fires) is a step of its own. *)

\* greatest number of progressInterval timers alive at once
MaxIntervals ==
    2

\* src/components/WalletScanner.tsx: scans the address typed into the input
AddressScanner ==
    "WalletScanner (address input)"

\* part_001: scans the connected wallet, shows progress and WalletActions
ActionsScanner ==
    "WalletScanner (wallet actions)"

CompactWalletScanner ==
    "CompactWalletScanner"

MinimalWalletScanner ==
    "MinimalWalletScanner"

\* part_003: scans the connected wallet through handleScan, no mock fallback
HandleScanScanner ==
    "WalletScanner (handleScan)"

\* the two components whose scanWallet steps through progressSteps
ProgressScanners ==
    {ActionsScanner, CompactWalletScanner}

\* the components that scan useWallet().publicKey
WalletScanners ==
    ProgressScanners \cup {MinimalWalletScanner, HandleScanScanner}

Scanners ==
    WalletScanners \cup {AddressScanner}

\* a body of the scan function: the 200 body carries the totals, the error
\* body only an error text
ScanBody ==
    [kind |-> "scan", error |-> Null, totalTokens |-> Some(2)]

ErrorBody(message) ==
    [kind |-> "error", error |-> Some(message), totalTokens |-> Null]

\* the demo result of the mounted component
mockScanResult ==
    [kind |-> "mock", error |-> Null,
     totalTokens |-> Some(IF component = MinimalWalletScanner THEN 3 ELSE 4)]

\* fetch() rejects: the function cannot be reached
FetchRejected ==
    [status |-> 0, body |-> Null]

\* fetch() resolves; body is Null when response.json() cannot parse it
Response(status, body) ==
    [status |-> status, body |-> body]

\* response.ok
ok(response) ==
    response.status \in 200..299

\* what the browser can get back for a POST with a wallet address
ApiResponses ==
    {FetchRejected,
     Response(200, Some(ScanBody)),
     Response(500, Some(ErrorBody("Failed to scan wallet"))),
     \* a page of the host instead of the function's JSON
     Response(200, Null),
     Response(404, Null)}

\* what can be typed into the address input
TypedAddresses ==
    {<<>>, NotAnAddress, WalletAddress}

progressSteps ==
    <<20, 40, 60, 80, 95, 100>>

\* the alert of a finished scan, with the count its message quotes
ScanAlert(result) ==
    Some([type |-> "info", found |-> result.totalTokens])

InitScanner ==
    /\ HandlerIdle
    /\ RiskIdle
    /\ FetchIdle
    /\ ActionsIdle
    /\ component \in Scanners
    /\ upc = "idle"
    /\ connected = FALSE
    /\ walletAddress = <<>>
    /\ isScanning = FALSE
    /\ scanProgress = 0
    /\ error = ""
    /\ alert = Null
    /\ shown = Null
    /\ ustep = 0
    /\ intervals = 0

ScannerStep ==
    UNCHANGED <<component, handlerVars, riskVars, fetchVars, actionVars>>

\* the wallet adapter connects or disconnects the wallet
WalletChanges ==
    /\ component \in WalletScanners
    /\ connected' = ~connected
    /\ UNCHANGED <<upc, walletAddress, isScanning, scanProgress, error, alert,
                   shown, ustep, intervals>>
    /\ ScannerStep

\* onChange of the address input, which is disabled during a scan
setWalletAddress(value) ==
    /\ component = AddressScanner
    /\ ~isScanning
    /\ walletAddress' = value
    /\ UNCHANGED <<upc, connected, isScanning, scanProgress, error, alert,
                   shown, ustep, intervals>>
    /\ ScannerStep

\* onClose of the alert
CloseAlert ==
    /\ alert # Null
    /\ alert' = Null
    /\ UNCHANGED <<upc, connected, walletAddress, isScanning, scanProgress,
                   error, shown, ustep, intervals>>
    /\ ScannerStep

\* the scan button is rendered and not disabled
ScanButtonEnabled ==
    /\ ~isScanning
    /\ IF component = AddressScanner THEN walletAddress # <<>> ELSE connected

\* scanWallet of the address scanner, up to the fetch
scanWalletByAddress ==
    /\ component = AddressScanner
    /\ ScanButtonEnabled
    /\ intervals < MaxIntervals
    /\ scanProgress' = 0
    /\ IF IsPublicKey(walletAddress)
       THEN /\ isScanning' = TRUE
            /\ error' = ""
            /\ upc' = "fetch"
       ELSE \* new PublicKey throws: catch, finally
            /\ isScanning' = FALSE
            /\ error' = "Invalid wallet address"
            /\ upc' = "idle"
    /\ UNCHANGED <<connected, walletAddress, alert, shown, ustep, intervals>>
    /\ ScannerStep

\* the fetch of the address scanner settles; anything but a parsed OK
\* response starts the mock fallback: setInterval, then await the timeout
AddressFetchSettles(response) ==
    /\ component = AddressScanner
    /\ upc = "fetch"
    /\ IF ok(response) /\ response.body # Null
       THEN /\ shown' = response.body
            /\ scanProgress' = 100
            /\ isScanning' = FALSE
            /\ upc' = "idle"
            /\ UNCHANGED intervals
       ELSE /\ intervals' = intervals + 1
            /\ upc' = "mock"
            /\ UNCHANGED <<shown, scanProgress, isScanning>>
    /\ UNCHANGED <<connected, walletAddress, error, alert, ustep>>
    /\ ScannerStep

\* one tick of a progressInterval
IntervalTick ==
    /\ component = AddressScanner
    /\ intervals > 0
    /\ IF scanProgress >= 90
       THEN /\ intervals' = intervals - 1
            /\ scanProgress' = 90
       ELSE /\ scanProgress' = scanProgress + 10
            /\ UNCHANGED intervals
    /\ UNCHANGED <<upc, connected, walletAddress, isScanning, error, alert,
                   shown, ustep>>
    /\ ScannerStep

\* the 2000 ms timeout of the address scanner fires; finally
MockTimeout ==
    /\ component = AddressScanner
    /\ upc = "mock"
    /\ scanProgress' = 100
    /\ shown' = Some(mockScanResult)
    /\ isScanning' = FALSE
    /\ upc' = "idle"
    /\ UNCHANGED <<connected, walletAddress, error, alert, ustep, intervals>>
    /\ ScannerStep

\* scanWallet of part_001 and part_002, up to the fetch
scanWalletWithProgress ==
    /\ component \in ProgressScanners
    /\ ScanButtonEnabled
    /\ isScanning' = TRUE
    /\ scanProgress' = 10
    /\ error' = ""
    /\ alert' = Null
    /\ upc' = "fetch"
    /\ UNCHANGED <<connected, walletAddress, shown, ustep, intervals>>
    /\ ScannerStep

\* the fetch of part_001 and part_002 settles
ProgressFetchSettles(response) ==
    /\ component \in ProgressScanners
    /\ upc = "fetch"
    /\ IF ok(response) /\ response.body # Null
       THEN /\ scanProgress' = 100
            /\ shown' = response.body
            /\ alert' = ScanAlert(response.body[1])
            /\ isScanning' = FALSE
            /\ upc' = "idle"
       ELSE /\ scanProgress' = IF response = FetchRejected THEN scanProgress ELSE 50
            /\ upc' = "steps"
            /\ UNCHANGED <<shown, alert, isScanning>>
    /\ UNCHANGED <<connected, walletAddress, error, ustep, intervals>>
    /\ ScannerStep

\* one 300 ms step of the mock fallback; the last one ends the scan
ProgressStep ==
    /\ component \in ProgressScanners
    /\ upc = "steps"
    /\ scanProgress' = progressSteps[ustep + 1]
    /\ IF ustep + 1 = Len(progressSteps)
       THEN /\ shown' = Some(mockScanResult)
            /\ alert' = Some([type |-> "info", found |-> Null])
            /\ isScanning' = FALSE
            /\ upc' = "idle"
            /\ ustep' = 0
       ELSE /\ ustep' = ustep + 1
            /\ UNCHANGED <<shown, alert, isScanning, upc>>
    /\ UNCHANGED <<connected, walletAddress, error, intervals>>
    /\ ScannerStep

\* scanWallet of MinimalWalletScanner, up to setTimeout
scanWalletMinimal ==
    /\ component = MinimalWalletScanner
    /\ ScanButtonEnabled
    /\ isScanning' = TRUE
    /\ alert' = Null
    /\ upc' = "timer"
    /\ UNCHANGED <<connected, walletAddress, scanProgress, error, shown, ustep,
                   intervals>>
    /\ ScannerStep

MinimalTimeoutStillScanning ==
    /\ component = MinimalWalletScanner
    /\ upc = "timer"
    /\ shown' = Some(mockScanResult)
    /\ alert' = Some([type |-> "error", found |-> Null])
    /\ upc' = "idle"
    /\ UNCHANGED <<connected, walletAddress, isScanning, scanProgress, error, ustep,
                   intervals>>
    /\ ScannerStep

\* the 2000 ms timeout of MinimalWalletScanner fires
MinimalTimeout ==
    /\ component = MinimalWalletScanner
    /\ upc = "timer"
    /\ shown' = Some(mockScanResult)
    /\ alert' = Some([type |-> "error", found |-> Null])
    /\ isScanning' = FALSE
    /\ upc' = "idle"
    /\ UNCHANGED <<connected, walletAddress, scanProgress, error, ustep, intervals>>
    /\ ScannerStep

\* handleScan of part_003, up to the fetch (its flag is called scanning)
handleScan ==
    /\ component = HandleScanScanner
    /\ ScanButtonEnabled
    /\ isScanning' = TRUE
    /\ error' = ""
    /\ alert' = Null
    /\ upc' = "fetch"
    /\ UNCHANGED <<connected, walletAddress, scanProgress, shown, ustep, intervals>>
    /\ ScannerStep

\* the fetch of handleScan settles: whatever parses is the result
HandleScanSettles(response) ==
    /\ component = HandleScanScanner
    /\ upc = "fetch"
    /\ IF response.body # Null
       THEN /\ shown' = response.body
            /\ alert' = ScanAlert(response.body[1])
            /\ UNCHANGED error
       ELSE /\ error' = "Failed to scan wallet. Please try again."
            /\ UNCHANGED <<shown, alert>>
    /\ isScanning' = FALSE
    /\ upc' = "idle"
    /\ UNCHANGED <<connected, walletAddress, scanProgress, ustep, intervals>>
    /\ ScannerStep

\* the steps the browser takes by itself: a fetch settles, a timer fires
ScannerSettles ==
    \/ \E response \in ApiResponses : AddressFetchSettles(response)
    \/ IntervalTick
    \/ MockTimeout
    \/ \E response \in ApiResponses : ProgressFetchSettles(response)
    \/ ProgressStep
    \/ MinimalTimeout
    \/ \E response \in ApiResponses : HandleScanSettles(response)

\* the steps of the user and of the wallet
ScannerInput ==
    \/ WalletChanges
    \/ \E value \in TypedAddresses : setWalletAddress(value)
    \/ CloseAlert
    \/ scanWalletByAddress
    \/ scanWalletWithProgress
    \/ scanWalletMinimal
    \/ handleScan

NextScanner ==
    \/ ScannerInput
    \/ ScannerSettles

SpecScanner ==
    InitScanner /\ [][NextScanner]_vars

\* a pending fetch settles
FetchSettles ==
    \/ \E response \in ApiResponses : AddressFetchSettles(response)
    \/ \E response \in ApiResponses : ProgressFetchSettles(response)
    \/ \E response \in ApiResponses : HandleScanSettles(response)

\* every pending fetch settles and every pending timer fires
SpecScannerFair ==
    /\ InitScanner
    /\ [][NextScanner]_vars
    /\ WF_vars(FetchSettles)
    /\ WF_vars(IntervalTick)
    /\ WF_vars(MockTimeout)
    /\ WF_vars(ProgressStep)
    /\ WF_vars(MinimalTimeout)

----------------------------------------------------------------------------
(* The action buttons of one token (specification SpecActions) *)

\* the token prop: its account address, if any, and its delegate, if any
TokenProp(tokenAccount, delegate) ==
    [tokenAccount |-> tokenAccount, delegate |-> delegate]

\* scanned tokens carry the address of their account, the mock tokens a
\* label that is no address
TokenProps ==
    {TokenProp(tokenAccount, delegate) :
        tokenAccount \in {Null, Some(NotAnAddress), Some(WalletAddress)},
        delegate \in {Null, Some(WalletAddress)}}

OnError(message) ==
    Some([type |-> "error", message |-> message])

OnSuccess(message) ==
    Some([type |-> "success", message |-> message])

NotConnectedMessage ==
    "Wallet not connected or token account not found"

FailedMessage(action) ==
    IF action = "revoke" THEN "Failed to revoke approval" ELSE "Failed to close account"

SucceededMessage(action) ==
    IF action = "revoke" THEN "Successfully revoked approval" ELSE "Successfully closed account"

\* the awaits of an attempt, in order
TransactionAwaits ==
    <<"getLatestBlockhash", "sendTransaction", "confirmTransaction">>

InitActions ==
    /\ HandlerIdle
    /\ RiskIdle
    /\ FetchIdle
    /\ ScannerIdle
    /\ isProcessing = Null
    /\ apc = "idle"
    /\ publicKey = TRUE
    /\ tokenProp \in TokenProps
    /\ notice = Null

ActionsStep ==
    UNCHANGED <<tokenProp, handlerVars, riskVars, fetchVars, scannerVars>>

\* the wallet adapter connects or disconnects the wallet
PublicKeyChanges ==
    /\ apc # "off"
    /\ publicKey' = ~publicKey
    /\ UNCHANGED <<isProcessing, apc, notice>>
    /\ ActionsStep

\* the parent closes the alert that shows the last message
CloseNotice ==
    /\ notice # Null
    /\ notice' = Null
    /\ UNCHANGED <<isProcessing, apc, publicKey>>
    /\ ActionsStep

\* revokeTokenApproval and closeTokenAccount up to their first await
StartTransaction(action) ==
    /\ apc # "off"
    /\ isProcessing = Null
    /\ IF ~publicKey \/ tokenProp.tokenAccount = Null
       THEN /\ notice' = OnError(NotConnectedMessage)
            /\ UNCHANGED <<isProcessing, apc>>
       ELSE IF ~IsPublicKey(tokenProp.tokenAccount[1])
       THEN \* new PublicKey throws: catch, finally
            /\ notice' = OnError(FailedMessage(action))
            /\ isProcessing' = Null
            /\ UNCHANGED apc
       ELSE /\ isProcessing' = Some(action)
            /\ apc' = TransactionAwaits[1]
            /\ UNCHANGED notice
    /\ UNCHANGED publicKey
    /\ ActionsStep

\* the revoke button is rendered for a token with a delegate only
revokeTokenApproval ==
    /\ tokenProp.delegate # Null
    /\ StartTransaction("revoke")

closeTokenAccount ==
    StartTransaction("close")

\* the await the attempt is at
AwaitIndex ==
    CHOOSE i \in DOMAIN TransactionAwaits : TransactionAwaits[i] = apc

\* the pending await of the attempt resolves or rejects; finally
TransactionSettlesStuck(resolved) ==
    /\ apc \notin {"off", "idle"}
    /\ IF ~resolved
       THEN /\ notice' = OnError(FailedMessage(isProcessing[1]))
            /\ apc' = "idle"
            /\ UNCHANGED isProcessing
       ELSE IF AwaitIndex = Len(TransactionAwaits)
       THEN /\ notice' = OnSuccess(SucceededMessage(isProcessing[1]))
            /\ isProcessing' = Null
            /\ apc' = "idle"
       ELSE /\ apc' = TransactionAwaits[AwaitIndex + 1]
            /\ UNCHANGED <<isProcessing, notice>>
    /\ UNCHANGED publicKey
    /\ ActionsStep

TransactionSettles(resolved) ==
    /\ apc \notin {"off", "idle"}
    /\ IF ~resolved
       THEN /\ notice' = OnError(FailedMessage(isProcessing[1]))
            /\ isProcessing' = Null
            /\ apc' = "idle"
       ELSE IF AwaitIndex = Len(TransactionAwaits)
       THEN /\ notice' = OnSuccess(SucceededMessage(isProcessing[1]))
            /\ isProcessing' = Null
            /\ apc' = "idle"
       ELSE /\ apc' = TransactionAwaits[AwaitIndex + 1]
            /\ UNCHANGED <<isProcessing, notice>>
    /\ UNCHANGED publicKey
    /\ ActionsStep

NextActions ==
    \/ PublicKeyChanges
    \/ CloseNotice
    \/ revokeTokenApproval
    \/ closeTokenAccount
    \/ \E resolved \in BOOLEAN : TransactionSettles(resolved)

SpecActions ==
    InitActions /\ [][NextActions]_vars

----------------------------------------------------------------------------
(* Claims about the scanner components (SpecScanner, SpecScannerFair) *)

\* C27: in the component that scans through handleScan the result on display
\* only ever comes from a successful scan response; an error body of the
\* scan function never becomes the result.
C27_ResultOnlyFromSuccess ==
    (component = HandleScanScanner /\ shown # Null) => shown[1].kind = "scan"

\* a scan is under way in the component
ScanInFlight ==
    upc \in {"fetch", "mock", "steps", "timer"}

\* a click on the scan button
ScanClicked ==
    \/ scanWalletByAddress
    \/ scanWalletWithProgress
    \/ scanWalletMinimal
    \/ handleScan

\* C28: in every scanner component isScanning is true exactly while a scan is
\* under way, no scan can be started while it is true (the button is
\* disabled), and whenever it is true it eventually becomes false again.
C28_ScanningAlwaysEnds ==
    /\ [](component \in Scanners => (isScanning <=> ScanInFlight))
    /\ [](isScanning => ~ENABLED ScanClicked)
    /\ (isScanning ~> ~isScanning)

\* the address scanner has fallen back to the mock data and finished
C28_Witness ==
    /\ component = AddressScanner
    /\ shown = Some(mockScanResult)
    /\ upc = "idle"
    /\ ~isScanning
    /\ intervals = 0

\* C29: in the mock fallback of the address scanner a tick of the progress
\* interval never lowers a scanProgress that the completion has set to 100.
C29_ProgressNeverLowered ==
    [][(IntervalTick /\ scanProgress = 100) => scanProgress' = 100]_vars

----------------------------------------------------------------------------
(* Claims about the action buttons of a token (SpecActions) *)

\* C30: isProcessing is non-null exactly while an attempt to revoke or to
\* close is awaiting the chain or the wallet, so it is null again after an
\* attempt has succeeded, has thrown, or has returned early for want of a
\* wallet or a token account; and while it is non-null neither button
\* starts a transaction.
C30_ProcessingOnlyInFlight ==
    apc # "off" =>
        /\ isProcessing # Null <=> apc # "idle"
        /\ isProcessing # Null =>
               /\ ~ENABLED revokeTokenApproval
               /\ ~ENABLED closeTokenAccount
               /\ isProcessing[1] \in {"revoke", "close"}
        /\ (notice # Null /\ apc = "idle") => isProcessing = Null

\* an attempt to close has thrown while the transaction was being confirmed
\* or sent, and the buttons are free again
C30_Witness ==
    /\ apc = "idle"
    /\ notice = OnError(FailedMessage("close"))
    /\ tokenProp.tokenAccount # Null
    /\ IsPublicKey(tokenProp.tokenAccount[1])
    /\ isProcessing = Null

====
